---- MODULE Spec2Model ----
(***************************************************************************)
(* Recovery of globally pinned chunks (package prod): the recovery hook,   *)
(* the pinner resolution over recovery feeds with its primary/fallback     *)
(* strategy, and the repair handler.                                       *)
(*                                                                         *)
(* The feed handler, the sender and the chunk store are the environment:   *)
(* every call made to them is a step of its own whose outcome is chosen    *)
(* nondeterministically.  Everything the code computes between two such    *)
(* calls belongs to the step of the call that precedes it.                 *)
(***************************************************************************)
EXTENDS Integers, Sequences, FiniteSets, TLC

(***************************************************************************)
(* Bounds                                                                  *)
(***************************************************************************)
\* longest feed content, in JSON tokens
MaxContentLen == 3
\* messages delivered to the repair handler in one behaviour
MaxDeliveries == 3

(***************************************************************************)
(* Errors                                                                  *)
(***************************************************************************)
NoErr == "nil"
ErrPublisher == "failed to decode publisher"
ErrPubKey == "failed to decompress public key"
ErrFeedLookup == "failed to look up recovery feed"
ErrFeedContent == "failed to get content for recovery feed"
ErrContextHash == "failed to extract hash from context"
ErrTargets == "failed to unmarshal targets in recovery feed content"
\* errors of the collaborators
ErrNoUpdates == "no feed updates found"
ErrLookupOther == "lookup: context deadline exceeded"
ErrGetContent == "feed handler: no content"
ErrSend == "pss: send failed"
ErrStoreSet == "store: set failed"

RecoveryTopicText == "RECOVERY"

(***************************************************************************)
(* Topics                                                                  *)
(***************************************************************************)
\* trojan.NewTopic: the topic of a text, equal texts giving equal topics
TrojanNewTopic(text) == <<"trojan.Topic", text>>

RecoveryTopic == TrojanNewTopic(RecoveryTopicText)

\* feed.NewTopic(name, nil): with no related content the derivation has no
\* failure mode and is a function of the name alone
FeedNewTopic(name) == [topic |-> <<"feed.Topic", name>>, err |-> NoErr]

(***************************************************************************)
(* Publishers: strings of characters, hex encodings of compressed keys.    *)
(* Keys are scaled down to two bytes: a prefix byte (2 or 3) and one byte  *)
(* of x coordinate.                                                        *)
(***************************************************************************)
HexDigits == <<"0", "1", "2", "3", "4", "5", "6", "7", "8", "9",
               "a", "b", "c", "d", "e", "f">>

IsHexDigit(ch) == \E i \in 1..16 : HexDigits[i] = ch

HexValue(ch) == (CHOOSE i \in 1..16 : HexDigits[i] = ch) - 1

\* hex.DecodeString: odd length or a non-hex character is an error
HexDecodeString(s) ==
    IF Len(s) % 2 = 0 /\ \A i \in 1..Len(s) : IsHexDigit(s[i])
    THEN [bytes |-> [i \in 1..(Len(s) \div 2) |->
                        16 * HexValue(s[2 * i - 1]) + HexValue(s[2 * i])],
          err |-> NoErr]
    ELSE [bytes |-> <<>>, err |-> "encoding/hex: invalid input"]

\* x coordinates that have a point on the (scaled down) curve
CurveXs == {161, 178}

\* crypto.DecompressPubkey: the bytes must be a prefix byte and an x on the curve
DecompressPubkey(b) ==
    IF Len(b) = 2 /\ b[1] \in {2, 3} /\ b[2] \in CurveXs
    THEN [key |-> <<b[2], b[1] % 2>>, err |-> NoErr]
    ELSE [key |-> <<>>, err |-> "invalid public key"]

\* crypto.PubkeyToAddress: a function of the point
PubkeyToAddress(key) == <<"common.Address", key[1], key[2]>>

ZeroAddress == <<"common.Address", 0, 0>>

\* variant: one error for both failures
publisherToAddress_oneKind(publisher) ==
    LET dec == HexDecodeString(publisher) IN
    IF dec.err # NoErr
    THEN [user |-> ZeroAddress, err |-> ErrPublisher]
    ELSE LET pk == DecompressPubkey(dec.bytes) IN
         IF pk.err # NoErr
         THEN [user |-> ZeroAddress, err |-> ErrPublisher]
         ELSE [user |-> PubkeyToAddress(pk.key), err |-> NoErr]

\* variant: the errors of the libraries are passed on
publisherToAddress_rawError(publisher) ==
    LET dec == HexDecodeString(publisher) IN
    IF dec.err # NoErr
    THEN [user |-> ZeroAddress, err |-> dec.err]
    ELSE LET pk == DecompressPubkey(dec.bytes) IN
         IF pk.err # NoErr
         THEN [user |-> ZeroAddress, err |-> pk.err]
         ELSE [user |-> PubkeyToAddress(pk.key), err |-> NoErr]

publisherToAddress(publisher) ==
    LET dec == HexDecodeString(publisher) IN
    IF dec.err # NoErr
    THEN [user |-> ZeroAddress, err |-> ErrPublisher]
    ELSE LET pk == DecompressPubkey(dec.bytes) IN
         IF pk.err # NoErr
         THEN [user |-> ZeroAddress, err |-> ErrPubKey]
         ELSE [user |-> PubkeyToAddress(pk.key), err |-> NoErr]

ZeroFeed == [Topic |-> <<"feed.Topic", "">>, User |-> ZeroAddress]

\* variant: the error of publisherToAddress is not looked at
getFeedTopicAndUser_zeroUser(topicText, publisher) ==
    LET t == FeedNewTopic(topicText) IN
    IF t.err # NoErr
    THEN [fd |-> ZeroFeed, err |-> t.err]
    ELSE [fd |-> [Topic |-> t.topic, User |-> publisherToAddress(publisher).user],
          err |-> NoErr]

getFeedTopicAndUser(topicText, publisher) ==
    LET t == FeedNewTopic(topicText) IN
    IF t.err # NoErr
    THEN [fd |-> ZeroFeed, err |-> t.err]
    ELSE LET u == publisherToAddress(publisher) IN
         IF u.err # NoErr
         THEN [fd |-> ZeroFeed, err |-> u.err]
         ELSE [fd |-> [Topic |-> t.topic, User |-> u.user], err |-> NoErr]

(***************************************************************************)
(* Feed content: a sequence of JSON tokens.  "a" and "b" are JSON strings  *)
(* holding the base64 encodings of the bytes <<1>> and <<2, 3>>, "x" is a  *)
(* JSON string that is not base64.                                         *)
(***************************************************************************)
JsonTokens == {"[", "]", ",", "null", "a", "b", "x"}

RECURSIVE SeqsOfLen(_, _)
SeqsOfLen(S, n) ==
    IF n = 0 THEN {<<>>}
    ELSE {Append(s, e) : s \in SeqsOfLen(S, n - 1), e \in S}

Contents == UNION {SeqsOfLen(JsonTokens, n) : n \in 0..MaxContentLen}

\* one element of the array, a trojan.Target: a base64 string or null
UnmarshalTarget(tok) ==
    CASE tok = "a" -> [target |-> <<1>>, err |-> NoErr]
      [] tok = "b" -> [target |-> <<2, 3>>, err |-> NoErr]
      [] tok = "null" -> [target |-> <<>>, err |-> NoErr]
      [] OTHER -> [target |-> <<>>, err |-> "json: cannot unmarshal"]

\* the elements after "[": value ("," value)* "]" and nothing after it
RECURSIVE UnmarshalElements(_, _, _)
UnmarshalElements(c, i, acc) ==
    IF i > Len(c) THEN [targets |-> <<>>, err |-> "unexpected end of JSON input"]
    ELSE LET e == UnmarshalTarget(c[i]) IN
         IF e.err # NoErr THEN [targets |-> <<>>, err |-> e.err]
         ELSE IF i + 1 > Len(c)
              THEN [targets |-> <<>>, err |-> "unexpected end of JSON input"]
         ELSE IF c[i + 1] = "]"
              THEN IF i + 1 = Len(c)
                   THEN [targets |-> Append(acc, e.target), err |-> NoErr]
                   ELSE [targets |-> <<>>, err |-> "invalid character after top-level value"]
         ELSE IF c[i + 1] = ","
              THEN UnmarshalElements(c, i + 2, Append(acc, e.target))
         ELSE [targets |-> <<>>, err |-> "invalid character after array element"]

\* json.Unmarshal(feedContent, targets) for targets of type trojan.Targets
JsonUnmarshalTargets(c) ==
    IF Len(c) = 0 THEN [targets |-> <<>>, err |-> "unexpected end of JSON input"]
    ELSE IF c = <<"null">> THEN [targets |-> <<>>, err |-> NoErr]
    ELSE IF c[1] # "["
         THEN [targets |-> <<>>, err |-> "json: cannot unmarshal into trojan.Targets"]
    ELSE IF Len(c) >= 2 /\ c[2] = "]"
         THEN IF Len(c) = 2
              THEN [targets |-> <<>>, err |-> NoErr]
              ELSE [targets |-> <<>>, err |-> "invalid character after top-level value"]
    ELSE UnmarshalElements(c, 2, <<>>)

(***************************************************************************)
(* Inputs                                                                  *)
(***************************************************************************)
KeyA == <<"0", "2", "a", "1">>
KeyB == <<"0", "3", "b", "2">>

\* publisher strings: empty, not hex, odd length, hex of no key, two keys
PublisherStrings == {<<>>, <<"z", "z">>, <<"0", "2", "a">>, <<"0", "a">>, KeyA, KeyB}

HashStrings == {"abc123", "", "ff"}

\* a value of the context: none, a string, or a value of another type
NoValue == [kind |-> "none"]
OtherValue == [kind |-> "other"]
StringValue(s) == [kind |-> "string", v |-> s]

Contexts ==
    [publisher : {NoValue} \cup {StringValue(s) : s \in {<<>>, <<"z", "z">>, <<"0", "a">>, KeyA}},
     hash : {NoValue, OtherValue} \cup {StringValue(s) : s \in HashStrings}]

ChunkAddresses == {<<10, 11>>, <<12, 13>>}

\* what handler.Lookup returns: an update, "no feed updates found", another error
LookupOutcomes == {NoErr, ErrNoUpdates, ErrLookupOther}

\* what handler.GetContent returns
GetContentOutcomes ==
    {[content |-> c, err |-> NoErr] : c \in Contents}
        \cup {[content |-> <<>>, err |-> ErrGetContent]}

SendOutcomes == {NoErr, ErrSend}

StoreSetOutcomes == {NoErr, ErrStoreSet}

(***************************************************************************)
(* State                                                                   *)
(***************************************************************************)
VARIABLES
    fallbackPublisher,  \* the fallbackPublisher the hook was built with
    hookPc,             \* "idle", "lookup", "getContent", "send", "returned"
    ctx,                \* the ctx of the running (or last) invocation
    chunkAddress,       \* its chunkAddress
    attempt,            \* the feed attempt under way: "primary" or "fallback"
    fd,                 \* the feed of the attempt under way
    primaryRes,         \* (feedContent, err) of the query of line 94
    fallbackRes,        \* (feedContent, err) of the query of line 106
    pinners,            \* what getPinners returned: (targets, err)
    hookErr,            \* what the hook returned
    lookups,            \* feeds handler.Lookup was called with, this invocation
    getContents,        \* feeds handler.GetContent was called with, this invocation
    sends,              \* calls of send, this invocation
    lookupErrs,         \* what the calls of handler.Lookup returned, in order
    getContentOuts,     \* what the calls of handler.GetContent returned, in order
    sendErrs,           \* what the calls of send returned, in order
    repairPc,           \* repair handler: "idle" or "inSet"
    message,            \* the message the repair handler runs on
    setRequests,        \* calls of s.Set, in order
    storePending,       \* calls of s.Set that have not returned
    storeReturns,       \* what the calls of s.Set returned, in order
    deliveries,         \* messages handed to the repair handler, in order
    handled,            \* invocations of the repair handler that returned
    runs                \* concurrent invocations of the hook: the frame of each

hookVars == <<fallbackPublisher, hookPc, ctx, chunkAddress, attempt, fd,
              primaryRes, fallbackRes, pinners, hookErr, lookups, getContents, sends,
              lookupErrs, getContentOuts, sendErrs>>

repairVars == <<repairPc, message, setRequests, storePending, storeReturns,
               deliveries, handled>>

concVars == <<runs>>

NotDone == [done |-> FALSE, content |-> <<>>, err |-> NoErr]
Done(content, err) == [done |-> TRUE, content |-> content, err |-> err]

NoPinners == [done |-> FALSE, targets |-> <<>>, err |-> NoErr]
Pinners(targets, err) == [done |-> TRUE, targets |-> targets, err |-> err]

vars == <<hookVars, repairVars, concVars>>

\* invocations of the hook that run at the same time
RunIds == {1, 2}

\* the frame of an invocation: its parameters, its locals, where it stands,
\* the calls of send it made and what its calls of the collaborators returned
IdleFrame ==
    [pc |-> "idle", ctx |-> [publisher |-> NoValue, hash |-> NoValue],
     chunkAddress |-> <<>>, attempt |-> "primary", fd |-> ZeroFeed,
     primaryRes |-> NotDone, fallbackRes |-> NotDone, pinners |-> NoPinners,
     hookErr |-> NoErr, sends |-> <<>>, lookupErrs |-> <<>>,
     getContentOuts |-> <<>>, sendErrs |-> <<>>]

NoMessage == [Payload |-> <<>>]

InitHook ==
    /\ fallbackPublisher \in PublisherStrings
    /\ hookPc = "idle"
    /\ ctx = [publisher |-> NoValue, hash |-> NoValue]
    /\ chunkAddress = <<>>
    /\ attempt = "primary"
    /\ fd = ZeroFeed
    /\ primaryRes = NotDone
    /\ fallbackRes = NotDone
    /\ pinners = NoPinners
    /\ hookErr = NoErr
    /\ lookups = <<>>
    /\ getContents = <<>>
    /\ sends = <<>>
    /\ lookupErrs = <<>>
    /\ getContentOuts = <<>>
    /\ sendErrs = <<>>

InitRepair ==
    /\ repairPc = "idle"
    /\ message = NoMessage
    /\ setRequests = <<>>
    /\ storePending = 0
    /\ storeReturns = <<>>
    /\ deliveries = <<>>
    /\ handled = 0

InitConc == runs = [h \in RunIds |-> IdleFrame]

Init == InitHook /\ InitRepair /\ InitConc

(***************************************************************************)
(* getPinners and the recovery hook, between two calls of a collaborator   *)
(***************************************************************************)
\* variant: a missing value is taken for the zero string
CtxString_zeroOk(c, key, zero) ==
    IF c[key].kind = "string" THEN [v |-> c[key].v, ok |-> TRUE]
    ELSE [v |-> zero, ok |-> TRUE]

\* ctx.Value(key).(string): the value and whether it is a string
CtxString(c, key, zero) ==
    IF c[key].kind = "string" THEN [v |-> c[key].v, ok |-> TRUE]
    ELSE [v |-> zero, ok |-> FALSE]

\* variant: the hook wraps the error of getPinners
HookAfterPinners_wrapped(p, fr) ==
    IF p.err # NoErr
    THEN [pc |-> "returned", attempt |-> "none", fd |-> ZeroFeed,
          fallbackRes |-> fr, pinners |-> p, hookErr |-> "recovery: " \o p.err]
    ELSE [pc |-> "send", attempt |-> "none", fd |-> ZeroFeed,
          fallbackRes |-> fr, pinners |-> p, hookErr |-> NoErr]

\* variant: the hook refuses an empty list of targets
HookAfterPinners_nonEmpty(p, fr) ==
    IF p.err # NoErr \/ p.targets = <<>>
    THEN [pc |-> "returned", attempt |-> "none", fd |-> ZeroFeed,
          fallbackRes |-> fr, pinners |-> p,
          hookErr |-> IF p.err # NoErr THEN p.err ELSE "no targets"]
    ELSE [pc |-> "send", attempt |-> "none", fd |-> ZeroFeed,
          fallbackRes |-> fr, pinners |-> p, hookErr |-> NoErr]

\* the hook once getPinners has returned p (lines 69 to 72)
HookAfterPinners(p, fr) ==
    IF p.err # NoErr
    THEN [pc |-> "returned", attempt |-> "none", fd |-> ZeroFeed,
          fallbackRes |-> fr, pinners |-> p, hookErr |-> p.err]
    ELSE [pc |-> "send", attempt |-> "none", fd |-> ZeroFeed,
          fallbackRes |-> fr, pinners |-> p, hookErr |-> NoErr]

\* variant: the error of json.Unmarshal is passed on
ExtractTargets_rawError(feedContent) ==
    LET u == JsonUnmarshalTargets(feedContent) IN
    IF u.err # NoErr THEN Pinners(<<>>, u.err)
    ELSE Pinners(u.targets, NoErr)

\* getPinners, lines 112 to 118: extract targets from feed content
ExtractTargets(feedContent) ==
    LET u == JsonUnmarshalTargets(feedContent) IN
    IF u.err # NoErr THEN Pinners(<<>>, ErrTargets)
    ELSE Pinners(u.targets, NoErr)

\* variant: a failed fallback query is made again
AfterFallback_retry(fr) ==
    IF fr.err # NoErr
    THEN [pc |-> "lookup", attempt |-> "fallback", fd |-> fd,
          fallbackRes |-> NotDone, pinners |-> NoPinners, hookErr |-> NoErr]
    ELSE HookAfterPinners(ExtractTargets(fr.content), fr)

\* variant: a failed fallback query reports the error of the primary query
AfterFallback_keepsPrimary(fr) ==
    IF fr.err # NoErr
    THEN HookAfterPinners(Pinners(<<>>, primaryRes.err), fr)
    ELSE HookAfterPinners(ExtractTargets(fr.content), fr)

\* getPinners once the query of line 106 has returned fr (lines 107 to 119)
AfterFallback(fr) ==
    IF fr.err # NoErr
    THEN HookAfterPinners(Pinners(<<>>, fr.err), fr)
    ELSE HookAfterPinners(ExtractTargets(fr.content), fr)

\* variant: the hash is left out of the fallback topic text
FallbackTopicText_noHash(hash) == RecoveryTopicText

\* the fallback topic text of line 106
FallbackTopicText(hash) == RecoveryTopicText \o "_" \o hash

\* variant: the fallback feed is preferred whenever a fallback publisher is set
AfterPrimary_fallbackFirst(pr, c, fb) ==
    IF pr.err # NoErr \/ fb # <<>>
    THEN IF fb = <<>>
         THEN HookAfterPinners(Pinners(<<>>, pr.err), NotDone)
         ELSE LET h == CtxString(c, "hash", "") IN
              IF ~h.ok
              THEN HookAfterPinners(Pinners(<<>>, ErrContextHash), NotDone)
              ELSE LET tu == getFeedTopicAndUser(FallbackTopicText(h.v), fb) IN
                   IF tu.err # NoErr
                   THEN AfterFallback(Done(<<>>, tu.err))
                   ELSE [pc |-> "lookup", attempt |-> "fallback", fd |-> tu.fd,
                         fallbackRes |-> NotDone, pinners |-> NoPinners,
                         hookErr |-> NoErr]
    ELSE HookAfterPinners(ExtractTargets(pr.content), NotDone)

\* variant: the hash is looked for before the fallback publisher
AfterPrimary_hashFirst(pr, c, fb) ==
    IF pr.err # NoErr
    THEN LET h == CtxString(c, "hash", "") IN
         IF ~h.ok
         THEN HookAfterPinners(Pinners(<<>>, ErrContextHash), NotDone)
         ELSE IF fb = <<>>
              THEN HookAfterPinners(Pinners(<<>>, pr.err), NotDone)
              ELSE LET tu == getFeedTopicAndUser(FallbackTopicText(h.v), fb) IN
                   IF tu.err # NoErr
                   THEN AfterFallback(Done(<<>>, tu.err))
                   ELSE [pc |-> "lookup", attempt |-> "fallback", fd |-> tu.fd,
                         fallbackRes |-> NotDone, pinners |-> NoPinners,
                         hookErr |-> NoErr]
    ELSE HookAfterPinners(ExtractTargets(pr.content), NotDone)

\* getPinners once the query of line 94 has returned pr (lines 96 to 119),
\* as far as the next call of the feed handler
AfterPrimary(pr, c, fb) ==
    IF pr.err # NoErr
    THEN IF fb = <<>>
         THEN HookAfterPinners(Pinners(<<>>, pr.err), NotDone)
         ELSE LET h == CtxString(c, "hash", "") IN
              IF ~h.ok
              THEN HookAfterPinners(Pinners(<<>>, ErrContextHash), NotDone)
              ELSE LET tu == getFeedTopicAndUser(FallbackTopicText(h.v), fb) IN
                   IF tu.err # NoErr
                   THEN AfterFallback(Done(<<>>, tu.err))
                   ELSE [pc |-> "lookup", attempt |-> "fallback", fd |-> tu.fd,
                         fallbackRes |-> NotDone, pinners |-> NoPinners,
                         hookErr |-> NoErr]
    ELSE HookAfterPinners(ExtractTargets(pr.content), NotDone)

\* the attempt under way ends: queryRecoveryFeed returns r to getPinners
AttemptEnds(r) ==
    IF attempt = "primary"
    THEN LET n == AfterPrimary(r, ctx, fallbackPublisher) IN
         /\ primaryRes' = r
         /\ hookPc' = n.pc
         /\ attempt' = n.attempt
         /\ fd' = n.fd
         /\ fallbackRes' = n.fallbackRes
         /\ pinners' = n.pinners
         /\ hookErr' = n.hookErr
    ELSE LET n == AfterFallback(r) IN
         /\ primaryRes' = primaryRes
         /\ hookPc' = n.pc
         /\ attempt' = n.attempt
         /\ fd' = n.fd
         /\ fallbackRes' = n.fallbackRes
         /\ pinners' = n.pinners
         /\ hookErr' = n.hookErr

(***************************************************************************)
(* The recovery hook                                                       *)
(***************************************************************************)
\* The hook is invoked: getPinners as far as the first call of the feed handler.
\* The closure captures send, handler and fallbackPublisher only and writes none
\* of them, so an invocation starts from the state NewRecoveryHook leaves; a
\* behaviour follows one invocation.
HookInvoke(c, addr) ==
    /\ hookPc = "idle"
    /\ ctx' = c
    /\ chunkAddress' = addr
    /\ lookups' = <<>>
    /\ getContents' = <<>>
    /\ sends' = <<>>
    /\ lookupErrs' = <<>>
    /\ getContentOuts' = <<>>
    /\ sendErrs' = <<>>
    /\ LET publisher == CtxString(c, "publisher", <<>>).v
           tu == getFeedTopicAndUser(RecoveryTopicText, publisher)
       IN  IF tu.err # NoErr
           THEN LET r == Done(<<>>, tu.err)
                    n == AfterPrimary(r, c, fallbackPublisher)
                IN  /\ primaryRes' = r
                    /\ hookPc' = n.pc
                    /\ attempt' = n.attempt
                    /\ fd' = n.fd
                    /\ fallbackRes' = n.fallbackRes
                    /\ pinners' = n.pinners
                    /\ hookErr' = n.hookErr
           ELSE /\ primaryRes' = NotDone
                /\ hookPc' = "lookup"
                /\ attempt' = "primary"
                /\ fd' = tu.fd
                /\ fallbackRes' = NotDone
                /\ pinners' = NoPinners
                /\ hookErr' = NoErr
    /\ UNCHANGED <<fallbackPublisher, repairVars, concVars>>

\* variant: every error of Lookup ends the attempt
LookupIsFatal_strict(err) == err # NoErr

\* variant: an expired deadline is let through as well
LookupIsFatal_deadlineOk(err) == err \notin {NoErr, ErrNoUpdates, ErrLookupOther}

\* getFeedContent, line 158: is the error of Lookup fatal for the attempt
LookupIsFatal(err) == err # NoErr /\ err # ErrNoUpdates

\* getFeedContent calls handler.Lookup, which returns err
Lookup(err) ==
    /\ hookPc = "lookup"
    /\ lookups' = Append(lookups, fd)
    /\ lookupErrs' = Append(lookupErrs, err)
    /\ IF LookupIsFatal(err)
       THEN AttemptEnds(Done(<<>>, ErrFeedLookup))
       ELSE /\ hookPc' = "getContent"
            /\ UNCHANGED <<attempt, fd, primaryRes, fallbackRes, pinners, hookErr>>
    /\ UNCHANGED <<fallbackPublisher, ctx, chunkAddress, getContents, sends,
                   getContentOuts, sendErrs, repairVars, concVars>>

\* getFeedContent calls handler.GetContent, which returns out
GetContent(out) ==
    /\ hookPc = "getContent"
    /\ getContents' = Append(getContents, fd)
    /\ getContentOuts' = Append(getContentOuts, out)
    /\ IF out.err # NoErr
       THEN AttemptEnds(Done(<<>>, ErrFeedContent))
       ELSE AttemptEnds(Done(out.content, NoErr))
    /\ UNCHANGED <<fallbackPublisher, ctx, chunkAddress, lookups, sends, lookupErrs,
                   sendErrs, repairVars, concVars>>

\* variant: the payload loses its last byte
Payload_truncated(addr) == SubSeq(addr, 1, Len(addr) - 1)

\* the payload of the recovery message, line 72
Payload(addr) == addr

\* variant: the error of send is dropped
SendResult_dropped(err) == NoErr

\* lines 75 to 78: what the hook returns when send has returned err
SendResult(err) == err

\* the hook calls send, which returns err, and returns (lines 72 to 78)
Send(err) ==
    /\ hookPc = "send"
    /\ sends' = Append(sends, [targets |-> pinners.targets,
                               topic |-> RecoveryTopic,
                               payload |-> Payload(chunkAddress)])
    /\ sendErrs' = Append(sendErrs, err)
    /\ hookErr' = SendResult(err)
    /\ hookPc' = "returned"
    /\ UNCHANGED <<fallbackPublisher, ctx, chunkAddress, attempt, fd, primaryRes,
                   fallbackRes, pinners, lookups, getContents, lookupErrs,
                   getContentOuts, repairVars, concVars>>

HookNext ==
    \/ \E c \in Contexts, addr \in ChunkAddresses : HookInvoke(c, addr)
    \/ \E err \in LookupOutcomes : Lookup(err)
    \/ \E out \in GetContentOutcomes : GetContent(out)
    \/ \E err \in SendOutcomes : Send(err)

Spec == Init /\ [][HookNext]_vars

(***************************************************************************)
(* The repair handler                                                      *)
(***************************************************************************)
ModeSetReUpload == "chunk.ModeSetReUpload"

Messages == {[Payload |-> a] : a \in ChunkAddresses}

\* variant: an address already requested is not requested again
RepairRequests_dedup(m, reqs) ==
    IF \E i \in DOMAIN reqs : reqs[i].addr = m.Payload
    THEN <<>>
    ELSE <<[mode |-> ModeSetReUpload, addr |-> m.Payload]>>

\* lines 85 and 86: the calls of s.Set the handler makes for message m
RepairRequests(m, reqs) == <<[mode |-> ModeSetReUpload, addr |-> m.Payload]>>

\* variant: s.Set is started in a goroutine, the handler does not wait
HandlerUnblocked_detached == TRUE

\* line 86 is a plain call: the handler goes on when s.Set has returned
HandlerUnblocked == storePending = 0

\* the handler is invoked with m and calls s.Set
RepairDeliver(m) ==
    /\ repairPc = "idle"
    /\ Len(deliveries) < MaxDeliveries
    /\ deliveries' = Append(deliveries, m)
    /\ message' = m
    /\ setRequests' = setRequests \o RepairRequests(m, setRequests)
    /\ storePending' = storePending + Len(RepairRequests(m, setRequests))
    /\ repairPc' = "inSet"
    /\ UNCHANGED <<storeReturns, handled, hookVars, concVars>>

\* the store ends a call of s.Set, returning err
StoreSetReturns(err) ==
    /\ storePending > 0
    /\ storePending' = storePending - 1
    /\ storeReturns' = Append(storeReturns, err)
    /\ UNCHANGED <<repairPc, message, setRequests, deliveries, handled, hookVars, concVars>>

\* the handler returns; the error of s.Set is dropped
RepairReturn ==
    /\ repairPc = "inSet"
    /\ HandlerUnblocked
    /\ repairPc' = "idle"
    /\ handled' = handled + 1
    /\ UNCHANGED <<message, setRequests, storePending, storeReturns, deliveries, hookVars, concVars>>

RepairNext ==
    \/ \E m \in Messages : RepairDeliver(m)
    \/ \E err \in StoreSetOutcomes : StoreSetReturns(err)
    \/ RepairReturn

SpecRepair == Init /\ [][RepairNext]_vars

(***************************************************************************)
(* Concurrent invocations of one recovery hook.  The invocations share     *)
(* what the closure captured (send, handler, fallbackPublisher); ctx,      *)
(* chunkAddress, targets and payload are parameters and locals of each     *)
(* call.  The steps are those of the hook above, taken on a frame.         *)
(***************************************************************************)
ConcContexts ==
    [publisher : {NoValue, StringValue(KeyA)},
     hash : {NoValue, StringValue("abc123")}]

ConcGetContentOutcomes ==
    {[content |-> <<"[", "a", "]">>, err |-> NoErr],
     [content |-> <<"[", "b", "]">>, err |-> NoErr],
     [content |-> <<"x">>, err |-> NoErr],
     [content |-> <<>>, err |-> ErrGetContent]}

\* variant: the parameters and locals are kept in one place for all invocations
Frame_shared(h) == CHOOSE g \in RunIds : runs[g].pc # "idle"

\* lines 67 to 72: the frame whose ctx, chunkAddress and targets invocation h reads
Frame(h) == h

\* queryRecoveryFeed returns r to getPinners in frame f of invocation h
FrameAttemptEnds(h, f, r) ==
    LET n == IF f.attempt = "primary"
             THEN AfterPrimary(r, runs[Frame(h)].ctx, fallbackPublisher)
             ELSE AfterFallback(r)
    IN  [f EXCEPT !.primaryRes = IF f.attempt = "primary" THEN r ELSE @,
                  !.pc = n.pc,
                  !.attempt = n.attempt,
                  !.fd = n.fd,
                  !.fallbackRes = n.fallbackRes,
                  !.pinners = n.pinners,
                  !.hookErr = n.hookErr]

\* invocation h starts with ctx c and chunkAddress addr, an address no other
\* invocation has
ConcInvoke(h, c, addr) ==
    /\ runs[h].pc = "idle"
    /\ \A g \in RunIds \ {h} : runs[g].chunkAddress # addr
    /\ LET f0 == [IdleFrame EXCEPT !.ctx = c, !.chunkAddress = addr]
           publisher == CtxString(c, "publisher", <<>>).v
           tu == getFeedTopicAndUser(RecoveryTopicText, publisher)
       IN  runs' = [runs EXCEPT ![h] =
                IF tu.err # NoErr
                THEN LET r == Done(<<>>, tu.err)
                         n == AfterPrimary(r, c, fallbackPublisher)
                     IN  [f0 EXCEPT !.primaryRes = r,
                                    !.pc = n.pc,
                                    !.attempt = n.attempt,
                                    !.fd = n.fd,
                                    !.fallbackRes = n.fallbackRes,
                                    !.pinners = n.pinners,
                                    !.hookErr = n.hookErr]
                ELSE [f0 EXCEPT !.pc = "lookup", !.fd = tu.fd]]
    /\ UNCHANGED <<hookVars, repairVars>>

\* handler.Lookup returns err to invocation h
ConcLookup(h, err) ==
    /\ runs[h].pc = "lookup"
    /\ LET f == [runs[h] EXCEPT !.lookupErrs = Append(@, err)]
       IN  runs' = [runs EXCEPT ![h] =
                IF LookupIsFatal(err)
                THEN FrameAttemptEnds(h, f, Done(<<>>, ErrFeedLookup))
                ELSE [f EXCEPT !.pc = "getContent"]]
    /\ UNCHANGED <<hookVars, repairVars>>

\* handler.GetContent returns out to invocation h
ConcGetContent(h, out) ==
    /\ runs[h].pc = "getContent"
    /\ LET f == [runs[h] EXCEPT !.getContentOuts = Append(@, out)]
       IN  runs' = [runs EXCEPT ![h] =
                IF out.err # NoErr
                THEN FrameAttemptEnds(h, f, Done(<<>>, ErrFeedContent))
                ELSE FrameAttemptEnds(h, f, Done(out.content, NoErr))]
    /\ UNCHANGED <<hookVars, repairVars>>

\* invocation h calls send, which returns err, and returns
ConcSend(h, err) ==
    /\ runs[h].pc = "send"
    /\ runs' = [runs EXCEPT ![h] =
            [@ EXCEPT !.sends = Append(@, [targets |-> runs[Frame(h)].pinners.targets,
                                           topic |-> RecoveryTopic,
                                           payload |-> Payload(runs[Frame(h)].chunkAddress)]),
                      !.sendErrs = Append(@, err),
                      !.hookErr = SendResult(err),
                      !.pc = "returned"]]
    /\ UNCHANGED <<hookVars, repairVars>>

ConcNext ==
    \/ \E h \in RunIds, c \in ConcContexts, addr \in ChunkAddresses : ConcInvoke(h, c, addr)
    \/ \E h \in RunIds, err \in LookupOutcomes : ConcLookup(h, err)
    \/ \E h \in RunIds, out \in ConcGetContentOutcomes : ConcGetContent(h, out)
    \/ \E h \in RunIds, err \in SendOutcomes : ConcSend(h, err)

SpecConc == Init /\ [][ConcNext]_vars

(***************************************************************************)
(* Properties                                                              *)
(***************************************************************************)
PrimaryTopic == FeedNewTopic(RecoveryTopicText).topic

\* the calls in log (lookups or getContents) whose feed has topic t
CallsWithTopic(log, t) == {i \in DOMAIN log : log[i].Topic = t}

\* the calls in log whose feed is f
CallsOfFeed(log, f) == {i \in DOMAIN log : log[i] = f}

\* no call of the feed handler was for a feed other than the primary one
OnlyPrimaryQueried ==
    /\ CallsWithTopic(lookups, PrimaryTopic) = DOMAIN lookups
    /\ CallsWithTopic(getContents, PrimaryTopic) = DOMAIN getContents
    /\ Len(lookups) <= 1
    /\ Len(getContents) <= 1
    /\ ~fallbackRes.done

PrimaryFailed == primaryRes.done /\ primaryRes.err # NoErr

PrimaryGaveContent == primaryRes.done /\ primaryRes.err = NoErr

\* C1: when the primary attempt yields content that decodes as a Targets
\* array, getPinners returns exactly the decoded array and no fallback feed
\* is queried, with or without a fallback publisher.
C1_PrimaryTargetsReturned ==
    (PrimaryGaveContent /\ JsonUnmarshalTargets(primaryRes.content).err = NoErr)
        => /\ pinners = Pinners(JsonUnmarshalTargets(primaryRes.content).targets, NoErr)
           /\ OnlyPrimaryQueried

C1_Witness ==
    /\ hookPc = "returned"
    /\ PrimaryGaveContent
    /\ primaryRes.content = <<"[", "a", "]">>
    /\ pinners = Pinners(<<(<<1>>)>>, NoErr)
    /\ fallbackPublisher = KeyB
    /\ ctx.hash = StringValue("abc123")

\* C2: when pinner resolution succeeds, the hook has called send exactly once
\* when it returns, with the RECOVERY topic, the resolved targets and a
\* payload equal to chunkAddress; no send is made before that call.
C2_SendOnceOnSuccess ==
    (pinners.done /\ pinners.err = NoErr)
        => /\ hookPc = "send" => sends = <<>>
           /\ hookPc = "returned"
                => sends = <<[targets |-> pinners.targets,
                              topic |-> TrojanNewTopic("RECOVERY"),
                              payload |-> chunkAddress]>>

C2_Witness ==
    /\ hookPc = "returned"
    /\ pinners.done /\ pinners.err = NoErr
    /\ Len(sends) = 1
    /\ sends[1].payload = <<12, 13>>
    /\ sends[1].targets = <<(<<2, 3>>)>>

\* C3: when the primary attempt fails and fallbackPublisher is empty,
\* getPinners returns the error of the primary attempt and makes no further
\* feed query.
C3_PrimaryErrorWithoutFallback ==
    (PrimaryFailed /\ fallbackPublisher = <<>>)
        => /\ pinners = Pinners(<<>>, primaryRes.err)
           /\ hookPc = "returned"
           /\ OnlyPrimaryQueried

C3_Witness ==
    /\ hookPc = "returned"
    /\ fallbackPublisher = <<>>
    /\ primaryRes = Done(<<>>, ErrFeedContent)
    /\ pinners.err = ErrFeedContent
    /\ ctx.hash = NoValue

\* C4: when the primary attempt fails, a fallback publisher is configured and
\* the context carries no hash string, getPinners fails with ErrContextHash
\* and the feed handler is never called for a fallback feed.
C4_MissingHash ==
    (PrimaryFailed /\ fallbackPublisher # <<>> /\ ctx.hash.kind # "string")
        => /\ pinners = Pinners(<<>>, ErrContextHash)
           /\ hookPc = "returned"
           /\ OnlyPrimaryQueried

C4_Witness ==
    /\ hookPc = "returned"
    /\ fallbackPublisher = KeyB
    /\ primaryRes = Done(<<>>, ErrFeedLookup)
    /\ ctx.hash = NoValue
    /\ pinners.err = ErrContextHash

\* the fallback feed of an invocation whose context carries the hash string
FallbackFeedOf(c, fb) ==
    [Topic |-> FeedNewTopic("RECOVERY_" \o c.hash.v).topic,
     User |-> publisherToAddress(fb).user]

FallbackCase ==
    /\ hookPc \in {"send", "returned"}
    /\ PrimaryFailed
    /\ fallbackPublisher # <<>>
    /\ ctx.hash.kind = "string"

\* C5 as stated: whenever the primary attempt fails, a fallback publisher is
\* configured and the context carries a hash h, the feed of topic
\* "RECOVERY_"+h is queried exactly once, whatever the fallback publisher
\* string is.
C5_Original ==
    FallbackCase
        => Cardinality(CallsWithTopic(lookups,
                           FeedNewTopic("RECOVERY_" \o ctx.hash.v).topic)) = 1

\* C5 amended: in that case, if the fallback publisher resolves to an
\* address, Lookup is called exactly once and GetContent at most once for the
\* feed of topic "RECOVERY_"+h and that address; if it does not resolve, the
\* feed handler is not called for any fallback feed and getPinners returns
\* the publisher error.
C5_FallbackQueriedOnce ==
    FallbackCase
        => IF publisherToAddress(fallbackPublisher).err = NoErr
           THEN /\ Cardinality(CallsOfFeed(lookups,
                        FallbackFeedOf(ctx, fallbackPublisher))) = 1
                /\ Cardinality(CallsOfFeed(getContents,
                        FallbackFeedOf(ctx, fallbackPublisher))) <= 1
                /\ Cardinality(CallsWithTopic(lookups, PrimaryTopic)) = Len(lookups) - 1
           ELSE /\ CallsWithTopic(lookups, PrimaryTopic) = DOMAIN lookups
                /\ CallsWithTopic(getContents, PrimaryTopic) = DOMAIN getContents
                /\ pinners = Pinners(<<>>, publisherToAddress(fallbackPublisher).err)

C5_Witness ==
    /\ hookPc = "returned"
    /\ PrimaryFailed
    /\ fallbackPublisher = KeyB
    /\ ctx.hash = StringValue("abc123")
    /\ Len(lookups) >= 1
    /\ lookups[Len(lookups)] =
           [Topic |-> <<"feed.Topic", "RECOVERY_abc123">>,
            User |-> <<"common.Address", 178, 1>>]
    /\ fallbackRes.done

\* C6: when pinner resolution fails, the hook returns the error of getPinners
\* itself, has made no second resolution, and has not called send.
C6_ResolverErrorReturned ==
    (pinners.done /\ pinners.err # NoErr)
        => /\ hookPc = "returned"
           /\ hookErr = pinners.err
           /\ sends = <<>>
           /\ Cardinality(CallsWithTopic(lookups, PrimaryTopic)) <= 1
           /\ Cardinality(CallsWithTopic(getContents, PrimaryTopic)) <= 1

C6_Witness ==
    /\ hookPc = "returned"
    /\ pinners = Pinners(<<>>, ErrTargets)
    /\ hookErr = ErrTargets
    /\ fallbackRes.done

\* C7: the store has received one ModeSetReUpload request per delivered
\* message, in order, each for the payload of its message; n deliveries of
\* one message give n requests for its address.
C7_OneRequestPerDelivery ==
    setRequests = [i \in 1..Len(deliveries) |->
                      [mode |-> "chunk.ModeSetReUpload", addr |-> deliveries[i].Payload]]

C7_Witness ==
    /\ Len(deliveries) = 3
    /\ deliveries[1] = deliveries[2]
    /\ deliveries[2] = deliveries[3]
    /\ Len(setRequests) = 3
    /\ handled = 3

C9_PrimaryDecodeFailure ==
    (PrimaryGaveContent /\ JsonUnmarshalTargets(primaryRes.content).err # NoErr)
        => /\ pinners = Pinners(<<>>, ErrTargets)
           /\ hookPc = "returned"
           /\ OnlyPrimaryQueried

C9_Witness ==
    /\ hookPc = "returned"
    /\ primaryRes = Done(<<"[", "x", "]">>, NoErr)
    /\ fallbackPublisher = KeyB
    /\ ctx.hash = StringValue("abc123")
    /\ pinners.err = ErrTargets

\* C10: in one call of getPinners the feed handler's Lookup and GetContent
\* are each called at most twice, at most once for the primary feed and at
\* most once for a fallback feed.
C10_AtMostOneFallback ==
    /\ Len(lookups) <= 2
    /\ Len(getContents) <= 2
    /\ Cardinality(CallsWithTopic(lookups, PrimaryTopic)) <= 1
    /\ Cardinality(CallsWithTopic(getContents, PrimaryTopic)) <= 1
    /\ Len(lookups) - Cardinality(CallsWithTopic(lookups, PrimaryTopic)) <= 1
    /\ Len(getContents) - Cardinality(CallsWithTopic(getContents, PrimaryTopic)) <= 1

C10_Witness ==
    /\ hookPc = "returned"
    /\ Len(lookups) = 2
    /\ Len(getContents) = 2
    /\ fallbackRes.done /\ fallbackRes.err # NoErr

\* the result of the attempt that queried feed f
AttemptRes(f) == IF f.Topic = PrimaryTopic THEN primaryRes ELSE fallbackRes

\* what GetContent returned for feed f (it is called at most once for a feed)
ContentOutFor(f) == getContentOuts[CHOOSE j \in DOMAIN getContents : getContents[j] = f]

\* C11: a Lookup that fails with "no feed updates found" does not end the
\* attempt: GetContent is called next for the same feed, once, and when it
\* succeeds the attempt succeeds with the content it returned.
C11_NoUpdatesIsNotFatal ==
    \A i \in DOMAIN lookups :
        lookupErrs[i] = "no feed updates found"
            => IF ~AttemptRes(lookups[i]).done
               THEN /\ hookPc = "getContent"
                    /\ fd = lookups[i]
                    /\ CallsOfFeed(getContents, lookups[i]) = {}
               ELSE /\ Cardinality(CallsOfFeed(getContents, lookups[i])) = 1
                    /\ ContentOutFor(lookups[i]).err = NoErr
                         => AttemptRes(lookups[i])
                                = Done(ContentOutFor(lookups[i]).content, NoErr)

C11_Witness ==
    /\ hookPc = "returned"
    /\ lookupErrs = <<ErrNoUpdates>>
    /\ getContentOuts = <<[content |-> <<"[", "a", "]">>, err |-> NoErr]>>
    /\ primaryRes = Done(<<"[", "a", "]">>, NoErr)
    /\ pinners = Pinners(<<(<<1>>)>>, NoErr)

\* C14: a Lookup that fails with any other error, an expired deadline
\* included, ends the attempt with ErrFeedLookup, and GetContent is not called
\* in that attempt.
C14_OtherLookupErrorIsFatal ==
    \A i \in DOMAIN lookups :
        lookupErrs[i] \notin {NoErr, "no feed updates found"}
            => /\ AttemptRes(lookups[i]) = Done(<<>>, ErrFeedLookup)
               /\ CallsOfFeed(getContents, lookups[i]) = {}

C14_Witness ==
    /\ hookPc = "returned"
    /\ lookupErrs = <<NoErr, ErrLookupOther>>
    /\ Len(getContents) = 1
    /\ fallbackRes = Done(<<>>, ErrFeedLookup)
    /\ pinners.err = ErrFeedLookup

\* the publisher string of the primary attempt, line 93
PrimaryPublisher == CtxString(ctx, "publisher", <<>>).v

\* C12 as stated: when the publisher of the context is absent or invalid and
\* no fallback publisher is configured, the error getPinners reports is not a
\* publisher-specific kind.
C12_Original ==
    (hookPc = "returned" /\ publisherToAddress(PrimaryPublisher).err # NoErr
        /\ fallbackPublisher = <<>>)
        => pinners.err \notin {ErrPublisher, ErrPubKey}

\* C12 amended: an absent or invalid publisher makes the primary attempt fail
\* like any other primary failure (the fallback is tried when configured),
\* but with a publisher-specific error: ErrPublisher when the string is not
\* hex, ErrPubKey when it is absent, empty or hex of no key; getPinners
\* reports that error when no fallback publisher is configured.
C12_PublisherErrorReported ==
    (hookPc # "idle" /\ publisherToAddress(PrimaryPublisher).err # NoErr)
        => /\ primaryRes =
                Done(<<>>, IF HexDecodeString(PrimaryPublisher).err # NoErr
                           THEN ErrPublisher ELSE ErrPubKey)
           /\ fallbackPublisher = <<>> => pinners = Pinners(<<>>, primaryRes.err)
           /\ (fallbackPublisher # <<>> /\ ctx.hash.kind = "string"
                 /\ publisherToAddress(fallbackPublisher).err = NoErr)
                => \/ hookPc = "lookup" /\ attempt = "fallback"
                   \/ Len(lookups) = 1 /\ lookups[1] = FallbackFeedOf(ctx, fallbackPublisher)

C12_Witness ==
    /\ hookPc = "returned"
    /\ ctx.publisher = NoValue
    /\ fallbackPublisher = <<>>
    /\ lookups = <<>>
    /\ pinners = Pinners(<<>>, ErrPubKey)

\* C15: when the fallback attempt is made, getPinners returns what that
\* attempt gives: its error as it is when it fails, the error of the primary
\* attempt being dropped, and the targets decoded from its content (ErrTargets
\* when the content does not decode) when it succeeds.
C15_FallbackOutcomeReturned ==
    fallbackRes.done
        => /\ PrimaryFailed
           /\ pinners.done
           /\ IF fallbackRes.err # NoErr
              THEN pinners = Pinners(<<>>, fallbackRes.err)
              ELSE IF JsonUnmarshalTargets(fallbackRes.content).err # NoErr
                   THEN pinners = Pinners(<<>>, ErrTargets)
                   ELSE pinners = Pinners(JsonUnmarshalTargets(fallbackRes.content).targets,
                                          NoErr)

C15_Witness ==
    /\ hookPc = "returned"
    /\ primaryRes = Done(<<>>, ErrFeedLookup)
    /\ fallbackRes = Done(<<>>, ErrFeedContent)
    /\ pinners = Pinners(<<>>, ErrFeedContent)
    /\ hookErr = ErrFeedContent

\* C16: when resolution succeeds with an empty list of targets the hook still
\* goes on to send, calls it once with the empty list, and returns no error
\* when send returns none.
C16_EmptyTargetsSent ==
    (pinners.done /\ pinners.err = NoErr /\ pinners.targets = <<>>)
        => /\ hookPc \in {"send", "returned"}
           /\ hookPc = "returned"
                => /\ Len(sends) = 1
                   /\ sends[1].targets = <<>>
                   /\ Len(sendErrs) = 1
                   /\ sendErrs[1] = NoErr => hookErr = NoErr

C16_Witness ==
    /\ hookPc = "returned"
    /\ primaryRes = Done(<<"[", "]">>, NoErr)
    /\ pinners = Pinners(<<>>, NoErr)
    /\ Len(sends) = 1
    /\ sendErrs = <<NoErr>>
    /\ hookErr = NoErr

\* C17: when resolution succeeds the hook returns what its one call of send
\* returned: that error when send fails, no error when send succeeds.
C17_SendErrorReturned ==
    (hookPc = "returned" /\ pinners.done /\ pinners.err = NoErr)
        => /\ Len(sendErrs) = 1
           /\ Len(sends) = 1
           /\ hookErr = sendErrs[1]

C17_Witness ==
    /\ hookPc = "returned"
    /\ pinners = Pinners(<<(<<1>>)>>, NoErr)
    /\ sendErrs = <<ErrSend>>
    /\ hookErr = ErrSend

\* C18: an attempt whose publisher string does not resolve to an address
\* fails with the error of publisherToAddress and the feed handler is not
\* called for it, in the primary attempt and in the fallback attempt.
C18_NoQueryWithoutAddress ==
    /\ (hookPc # "idle" /\ publisherToAddress(PrimaryPublisher).err # NoErr)
          => /\ primaryRes = Done(<<>>, publisherToAddress(PrimaryPublisher).err)
             /\ primaryRes.err \in {ErrPublisher, ErrPubKey}
             /\ CallsWithTopic(lookups, PrimaryTopic) = {}
             /\ CallsWithTopic(getContents, PrimaryTopic) = {}
    /\ (PrimaryFailed /\ fallbackPublisher # <<>> /\ ctx.hash.kind = "string"
          /\ publisherToAddress(fallbackPublisher).err # NoErr)
          => /\ fallbackRes = Done(<<>>, publisherToAddress(fallbackPublisher).err)
             /\ fallbackRes.err \in {ErrPublisher, ErrPubKey}
             /\ CallsWithTopic(lookups, PrimaryTopic) = DOMAIN lookups
             /\ CallsWithTopic(getContents, PrimaryTopic) = DOMAIN getContents

C18_Witness ==
    /\ hookPc = "returned"
    /\ ctx.publisher = NoValue
    /\ ctx.hash = StringValue("abc123")
    /\ fallbackPublisher = <<"z", "z">>
    /\ primaryRes = Done(<<>>, ErrPubKey)
    /\ fallbackRes = Done(<<>>, ErrPublisher)
    /\ lookups = <<>>
    /\ getContents = <<>>

SixKinds == {ErrPublisher, ErrPubKey, ErrFeedLookup, ErrFeedContent, ErrContextHash,
             ErrTargets}

\* the topic derivations of the invocation succeed
TopicsDerived ==
    /\ FeedNewTopic(RecoveryTopicText).err = NoErr
    /\ ctx.hash.kind = "string" => FeedNewTopic("RECOVERY_" \o ctx.hash.v).err = NoErr

\* C19: topic derivation succeeding, an error of getPinners is one of the six
\* kinds of the package, never an error of the feed handler or of a library,
\* and an error of the hook is the error of getPinners or the error its call
\* of send returned.
C19_ClosedErrors ==
    TopicsDerived
        => /\ pinners.done => pinners.err \in SixKinds \cup {NoErr}
           /\ primaryRes.err \in SixKinds \cup {NoErr}
           /\ fallbackRes.err \in SixKinds \cup {NoErr}
           /\ hookPc = "returned"
                => \/ hookErr = NoErr
                   \/ pinners.err # NoErr /\ hookErr = pinners.err /\ hookErr \in SixKinds
                   \/ pinners.err = NoErr /\ sendErrs = <<hookErr>>

C19_Witness ==
    /\ hookPc = "returned"
    /\ lookupErrs = <<ErrLookupOther, NoErr>>
    /\ getContentOuts = <<[content |-> <<>>, err |-> ErrGetContent]>>
    /\ primaryRes.err = ErrFeedLookup
    /\ pinners = Pinners(<<>>, ErrFeedContent)
    /\ hookErr = ErrFeedContent

\* what a query gives when it runs alone: tu is what getFeedTopicAndUser
\* returned, les[li] and gos[gi] what Lookup and GetContent return to it
AloneQuery(tu, les, gos, li, gi) ==
    IF tu.err # NoErr THEN Done(<<>>, tu.err)
    ELSE IF LookupIsFatal(les[li]) THEN Done(<<>>, ErrFeedLookup)
    ELSE IF gos[gi].err # NoErr THEN Done(<<>>, ErrFeedContent)
    ELSE Done(gos[gi].content, NoErr)

\* what an invocation with ctx c and chunkAddress addr gives when it runs
\* alone and its calls of Lookup, GetContent and send return les, gos and ses
RunAlone(c, addr, fb, les, gos, ses) ==
    LET tuP == getFeedTopicAndUser(RecoveryTopicText, CtxString(c, "publisher", <<>>).v)
        pr == AloneQuery(tuP, les, gos, 1, 1)
        n1 == AfterPrimary(pr, c, fb)
        li == IF tuP.err = NoErr THEN 2 ELSE 1
        gi == IF tuP.err = NoErr /\ ~LookupIsFatal(les[1]) THEN 2 ELSE 1
        n2 == IF n1.pc = "lookup"
              THEN AfterFallback(AloneQuery([fd |-> n1.fd, err |-> NoErr], les, gos, li, gi))
              ELSE n1
    IN  IF n2.pc = "send"
        THEN [pinners |-> n2.pinners,
              hookErr |-> SendResult(ses[1]),
              sends |-> <<[targets |-> n2.pinners.targets, topic |-> RecoveryTopic,
                           payload |-> Payload(addr)]>>]
        ELSE [pinners |-> n2.pinners, hookErr |-> n2.hookErr, sends |-> <<>>]

\* C13: invocations of the hook that run at the same time for different chunk
\* addresses do not interfere: every send of an invocation carries its own
\* chunkAddress and the targets it resolved itself, and what it returns and
\* sends is what it gives when run alone with the same answers of the feed
\* handler and of send.
C13_NoInterference ==
    \A h \in RunIds :
        /\ \A i \in DOMAIN runs[h].sends :
              /\ runs[h].sends[i].payload = runs[h].chunkAddress
              /\ runs[h].sends[i].targets = runs[h].pinners.targets
              /\ \A g \in RunIds \ {h} :
                    runs[g].pc # "idle" => runs[h].sends[i].payload # runs[g].chunkAddress
        /\ runs[h].pc = "returned"
              => LET a == RunAlone(runs[h].ctx, runs[h].chunkAddress, fallbackPublisher,
                                   runs[h].lookupErrs, runs[h].getContentOuts,
                                   runs[h].sendErrs)
                 IN  /\ runs[h].pinners = a.pinners
                     /\ runs[h].hookErr = a.hookErr
                     /\ runs[h].sends = a.sends

C13_Witness ==
    /\ runs[1].pc = "getContent"
    /\ runs[1].attempt = "fallback"
    /\ runs[2].pc = "returned"
    /\ runs[2].ctx # runs[1].ctx
    /\ runs[2].sends = <<[targets |-> <<(<<2, 3>>)>>, topic |-> RecoveryTopic,
                          payload |-> <<10, 11>>]>>
    /\ runs[1].chunkAddress = <<12, 13>>

====
